---------------------------- MODULE Spec2Model ----------------------------
(***************************************************************************)
(* Healthy Habit Tracker (src/routes.py): the tip functions, the request   *)
(* handlers and the tables they read and write.                            *)
(*                                                                         *)
(* Python values are modelled as follows.                                  *)
(*   - A str is Str(s), s a sequence of one-character strings; an int is   *)
(*     PyInt(n); None is the record None.  A numeric column read back from *)
(*     the storage is a plain number.                                      *)
(*   - A row returned by SELECT * is a tuple in the table's column order:  *)
(*     the serial id first, then the columns in the order the INSERT       *)
(*     statements of routes.py list them; Python's row[i] is At(row, i).   *)
(*   - A mean is kept exact, as a fraction [num, den].                     *)
(***************************************************************************)
EXTENDS Integers, Sequences, FiniteSets, TLC

VARIABLES
    user_detail,   \* habits.user_detail: committed rows <<id, username, password>>
    goals,         \* habits.goals: <<id, sleep_len_goal, better_sleep, intensity, diet, user_detail_id>>
    sleep,         \* habits.sleep: <<id, duration, date, log, rating, user_detail_id>>
    diet,          \* habits.diet: <<id, name, date, log, rating, user_detail_id>>
    workout,       \* habits.workout: <<id, name, date, duration, intensity, type, log, rating, user_detail_id>>
    feedback,      \* habits.feedback: records, columns by name
    pc,            \* per worker: the statement its request handler is at
    local,         \* per worker: the locals of the handler in flight
    http,          \* the last completed exchange: worker, request, response
    connections,   \* the storage connections that are open
    args,          \* tip functions called on their own: the arguments
    result         \* tip functions called on their own: the returned list

vars == <<user_detail, goals, sleep, diet, workout, feedback, pc, local, http, connections,
          args, result>>

tables == <<user_detail, goals, sleep, diet, workout, feedback>>

-----------------------------------------------------------------------------
(* Python values *)

None == [type |-> "NoneType"]

Str(s) == [type |-> "str", chars |-> s]

PyInt(n) == [type |-> "int", n |-> n]

\* bool(x) for a form value: None and "" are falsy
truthy(x) == x # None /\ x # Str(<<>>)

\* x or ""
or_empty(x) == IF truthy(x) THEN x ELSE Str(<<>>)

At(row, i) == row[i + 1]

Range(s) == {s[i] : i \in 1..Len(s)}

SeqUpTo(S, n) == UNION {[1..k -> S] : k \in 0..n}

RECURSIVE column_sum(_, _)
column_sum(rows, i) ==
    IF rows = <<>> THEN 0 ELSE At(Head(rows), i) + column_sum(Tail(rows), i)

\* total / count, for a non-empty list
mean(rows, i) == [num |-> column_sum(rows, i), den |-> Len(rows)]

\* avg >= goal, on the exact fraction
mean_ge(avg, goal) == avg.num >= goal * avg.den

\* f"{avg:.2f}": the value in hundredths, rounded half to even
format_2f(avg) ==
    LET q == (avg.num * 100) \div avg.den
        r == (avg.num * 100) % avg.den
    IN  IF 2 * r < avg.den THEN q
        ELSE IF 2 * r > avg.den THEN q + 1
        ELSE IF q % 2 = 0 THEN q ELSE q + 1

Whitespace == {" "}

Digits == {"0", "1", "2", "3", "4", "5", "6", "7", "8", "9"}

DigitValue ==
    [c \in Digits |->
        CASE c = "0" -> 0 [] c = "1" -> 1 [] c = "2" -> 2 [] c = "3" -> 3 [] c = "4" -> 4
          [] c = "5" -> 5 [] c = "6" -> 6 [] c = "7" -> 7 [] c = "8" -> 8 [] c = "9" -> 9]

Uppercase == {"B", "H", "I"}

LowerOf == [c \in Uppercase |-> CASE c = "B" -> "b" [] c = "H" -> "h" [] c = "I" -> "i"]

RECURSIVE lstrip(_)
lstrip(s) == IF s # <<>> /\ Head(s) \in Whitespace THEN lstrip(Tail(s)) ELSE s

RECURSIVE rstrip(_)
rstrip(s) ==
    IF s # <<>> /\ s[Len(s)] \in Whitespace THEN rstrip(SubSeq(s, 1, Len(s) - 1)) ELSE s

\* str.strip() and str.lower()
strip(x) == Str(rstrip(lstrip(x.chars)))

lower(x) ==
    Str([k \in 1..Len(x.chars) |->
            IF x.chars[k] \in Uppercase THEN LowerOf[x.chars[k]] ELSE x.chars[k]])

RECURSIVE digits_value(_, _)
digits_value(s, acc) ==
    IF s = <<>> THEN acc ELSE digits_value(Tail(s), acc * 10 + DigitValue[Head(s)])

\* the integer a text spells: blanks around it, an optional sign, then digits only
parse_integer(s) ==
    LET t == rstrip(lstrip(s))
        signed == t # <<>> /\ Head(t) \in {"+", "-"}
        d == IF signed THEN Tail(t) ELSE t
    IN  IF d # <<>> /\ \A k \in 1..Len(d) : d[k] \in Digits
        THEN [ok |-> TRUE,
              value |-> IF signed /\ Head(t) = "-"
                        THEN 0 - digits_value(d, 0) ELSE digits_value(d, 0)]
        ELSE [ok |-> FALSE, value |-> 0]

\* int(x) for a str x: ok is FALSE where Python raises ValueError
int(x) == parse_integer(x.chars)

\* one string of the returned list: the literal text and the values formatted into it
Tip(text, values) == [text |-> text, values |-> values]

-----------------------------------------------------------------------------
(* The tip texts of routes.py *)

NotEnoughData == "Not enough data yet..."

DietAvgMeets == "Your Average ({diet_avg:.2f}) currently meets or is passing your goal!"
DietAvgBelow == "Your Average ({diet_avg:.2f}) is currently below your goal!"
DietNewestMeets == "Your newest ({newest}) is above your goal! Keep it up!"
DietNewestBelow == "Your newest ({newest}) is below your goal! Don't let this become a trend."

WorkAvgMeets == "Your Average intensity ({work_avg:.2f}) currently meets or is passing your goal!"
WorkAvgBelow == "Your Average intensity ({work_avg:.2f}) is currently below your goal!"
WorkAvgCoach == "If you're using weights, try increasing the weight or amount of reps."
WorkNewestMeets == "Your most recent intensity ({newest}) meets or is above your goal!"
WorkTooIntense == "Try not to go too intense too often; it's okay to take a break occasionally."
WorkNewestBelow == "Your newest ({newest}) is below your goal!"
WorkNewestCoach == "If you're taking a break that's okay, but try to increase the intensity when you're ready."

SleepLenAvgMeets == "Your Average length of sleep ({sleep_len_avg:.2f}) currently meets or is passing your goal!"
SleepLenAvgBelow == "Your Average length of sleep ({sleep_len_avg:.2f}) is currently below your goal!"
SleepLenNewestMeets == "Your newest length of sleep ({newest_len}) is above your goal! Keep it up!"
SleepLenNewestBelow == "Your newest length of sleep ({newest_len}) is below your goal! Don't let this become a trend."
SleepQualAvgMeets == "Your average quality of sleep({sleep_qual_avg:.2f}) is above your goal! Keep it up!"
SleepQualAvgBelow == "Your average quality of sleep ({sleep_qual_avg:.2f}) is currently below your goal!"
SleepScreens == "For better sleep quality, try not to use any screens for at least an hour before bed."
SleepQualNewestMeets == "Your most recent sleep ({newest_qual}) meets or is above your goal!"
SleepQualNewestBelow == "Your most recent sleep ({newest_qual}) is below your goal!"

HighIntensity == 8

-----------------------------------------------------------------------------
(* diet_tips, workout_tips, sleep_tips *)

diet_tips_short(diet_data, goal_data) ==
    IF Len(diet_data) <= 1 \/ goal_data = <<>>
    THEN <<Tip(NotEnoughData, <<>>)>>
    ELSE LET newest == At(diet_data[1], 4)
             goal == At(goal_data[1], 4)
             diet_avg == mean(diet_data, 4)
         IN  <<IF mean_ge(diet_avg, goal)
               THEN Tip(DietAvgMeets, <<format_2f(diet_avg)>>)
               ELSE Tip(DietAvgBelow, <<format_2f(diet_avg)>>)>>
             \o <<IF newest >= goal
                  THEN Tip(DietNewestMeets, <<newest>>)
                  ELSE Tip(DietNewestBelow, <<newest>>)>>

diet_tips_strict(diet_data, goal_data) ==
    IF diet_data = <<>> \/ goal_data = <<>>
    THEN <<Tip(NotEnoughData, <<>>)>>
    ELSE LET newest == At(diet_data[1], 4)
             goal == At(goal_data[1], 4)
             diet_avg == mean(diet_data, 4)
         IN  <<IF diet_avg.num > goal * diet_avg.den
               THEN Tip(DietAvgMeets, <<format_2f(diet_avg)>>)
               ELSE Tip(DietAvgBelow, <<format_2f(diet_avg)>>)>>
             \o <<IF newest >= goal
                  THEN Tip(DietNewestMeets, <<newest>>)
                  ELSE Tip(DietNewestBelow, <<newest>>)>>

diet_tips(diet_data, goal_data) ==
    IF diet_data = <<>> \/ goal_data = <<>>
    THEN <<Tip(NotEnoughData, <<>>)>>
    ELSE LET newest == At(diet_data[1], 4)
             goal == At(goal_data[1], 4)
             diet_avg == mean(diet_data, 4)
         IN  <<IF mean_ge(diet_avg, goal)
               THEN Tip(DietAvgMeets, <<format_2f(diet_avg)>>)
               ELSE Tip(DietAvgBelow, <<format_2f(diet_avg)>>)>>
             \o <<IF newest >= goal
                  THEN Tip(DietNewestMeets, <<newest>>)
                  ELSE Tip(DietNewestBelow, <<newest>>)>>

workout_tips_unnested(work_data, goal_data) ==
    IF work_data = <<>> \/ goal_data = <<>>
    THEN <<Tip(NotEnoughData, <<>>)>>
    ELSE LET newest == At(work_data[1], 4)
             goal == At(goal_data[1], 3)
             work_avg == mean(work_data, 4)
         IN  (IF mean_ge(work_avg, goal)
              THEN <<Tip(WorkAvgMeets, <<format_2f(work_avg)>>)>>
              ELSE <<Tip(WorkAvgBelow, <<format_2f(work_avg)>>), Tip(WorkAvgCoach, <<>>)>>)
             \o (IF newest >= goal
                 THEN <<Tip(WorkNewestMeets, <<newest>>)>>
                 ELSE <<Tip(WorkNewestBelow, <<newest>>), Tip(WorkNewestCoach, <<>>)>>)
             \o (IF newest >= HighIntensity THEN <<Tip(WorkTooIntense, <<>>)>> ELSE <<>>)

workout_tips(work_data, goal_data) ==
    IF work_data = <<>> \/ goal_data = <<>>
    THEN <<Tip(NotEnoughData, <<>>)>>
    ELSE LET newest == At(work_data[1], 4)
             goal == At(goal_data[1], 3)
             work_avg == mean(work_data, 4)
         IN  (IF mean_ge(work_avg, goal)
              THEN <<Tip(WorkAvgMeets, <<format_2f(work_avg)>>)>>
              ELSE <<Tip(WorkAvgBelow, <<format_2f(work_avg)>>), Tip(WorkAvgCoach, <<>>)>>)
             \o (IF newest >= goal
                 THEN <<Tip(WorkNewestMeets, <<newest>>)>>
                      \o (IF newest >= HighIntensity THEN <<Tip(WorkTooIntense, <<>>)>> ELSE <<>>)
                 ELSE <<Tip(WorkNewestBelow, <<newest>>), Tip(WorkNewestCoach, <<>>)>>)

sleep_tips_screens_on_length(sleep_data, goal_data) ==
    IF sleep_data = <<>> \/ goal_data = <<>>
    THEN <<Tip(NotEnoughData, <<>>)>>
    ELSE LET newest_len == At(sleep_data[1], 1)
             newest_qual == At(sleep_data[1], 4)
             goal_len == At(goal_data[1], 1)
             goal_qual == At(goal_data[1], 2)
             sleep_len_avg == mean(sleep_data, 1)
             sleep_qual_avg == mean(sleep_data, 4)
         IN  (IF mean_ge(sleep_len_avg, goal_len)
              THEN <<Tip(SleepLenAvgMeets, <<format_2f(sleep_len_avg)>>)>>
              ELSE <<Tip(SleepLenAvgBelow, <<format_2f(sleep_len_avg)>>), Tip(SleepScreens, <<>>)>>)
             \o <<IF newest_len >= goal_len
                  THEN Tip(SleepLenNewestMeets, <<newest_len>>)
                  ELSE Tip(SleepLenNewestBelow, <<newest_len>>)>>
             \o <<IF mean_ge(sleep_qual_avg, goal_qual)
                  THEN Tip(SleepQualAvgMeets, <<format_2f(sleep_qual_avg)>>)
                  ELSE Tip(SleepQualAvgBelow, <<format_2f(sleep_qual_avg)>>)>>
             \o <<IF newest_qual >= goal_qual
                  THEN Tip(SleepQualNewestMeets, <<newest_qual>>)
                  ELSE Tip(SleepQualNewestBelow, <<newest_qual>>)>>

sleep_tips(sleep_data, goal_data) ==
    IF sleep_data = <<>> \/ goal_data = <<>>
    THEN <<Tip(NotEnoughData, <<>>)>>
    ELSE LET newest_len == At(sleep_data[1], 1)
             newest_qual == At(sleep_data[1], 4)
             goal_len == At(goal_data[1], 1)
             goal_qual == At(goal_data[1], 2)
             sleep_len_avg == mean(sleep_data, 1)
             sleep_qual_avg == mean(sleep_data, 4)
         IN  <<IF mean_ge(sleep_len_avg, goal_len)
               THEN Tip(SleepLenAvgMeets, <<format_2f(sleep_len_avg)>>)
               ELSE Tip(SleepLenAvgBelow, <<format_2f(sleep_len_avg)>>)>>
             \o <<IF newest_len >= goal_len
                  THEN Tip(SleepLenNewestMeets, <<newest_len>>)
                  ELSE Tip(SleepLenNewestBelow, <<newest_len>>)>>
             \o (IF mean_ge(sleep_qual_avg, goal_qual)
                 THEN <<Tip(SleepQualAvgMeets, <<format_2f(sleep_qual_avg)>>)>>
                 ELSE <<Tip(SleepQualAvgBelow, <<format_2f(sleep_qual_avg)>>), Tip(SleepScreens, <<>>)>>)
             \o <<IF newest_qual >= goal_qual
                  THEN Tip(SleepQualNewestMeets, <<newest_qual>>)
                  ELSE Tip(SleepQualNewestBelow, <<newest_qual>>)>>

-----------------------------------------------------------------------------
(* Workers and the state nothing has touched yet *)

Workers == {"w1", "w2"}

NoLocal == [handler |-> "none"]

NoExchange == [worker |-> "none", handler |-> "none"]

NoCall == [fn |-> "none", data |-> <<>>, goal_data |-> <<>>]

NoResult == [fn |-> "none", tips |-> <<>>]

EmptyDatabase ==
    /\ user_detail = <<>>
    /\ goals = <<>>
    /\ sleep = <<>>
    /\ diet = <<>>
    /\ workout = <<>>
    /\ feedback = <<>>

\* lines 32-36: the connection opened when the module is loaded is closed there
NoConnections == [in_use |-> 0, abandoned |-> 0]

NoRequests ==
    /\ pc = [w \in Workers |-> "idle"]
    /\ local = [w \in Workers |-> NoLocal]
    /\ http = NoExchange
    /\ connections = NoConnections

-----------------------------------------------------------------------------
(* The storage, as the statements of routes.py use it.  The schema is not   *)
(* part of routes.py: date and numeric columns are required and typed, as   *)
(* the data model states; a value the column cannot take makes the          *)
(* statement raise psycopg2.Error.                                          *)

\* the text of a form field as a numeric column takes it
pg_numeric(x) == IF x = None THEN [ok |-> FALSE, value |-> 0] ELSE parse_integer(x.chars)

\* the text of a form field as a date column takes it: YYYY-MM-DD
pg_date(x) ==
    LET s == IF x = None THEN <<>> ELSE x.chars
        shaped == /\ Len(s) = 10
                  /\ s[5] = "-" /\ s[8] = "-"
                  /\ \A k \in {1, 2, 3, 4, 6, 7, 9, 10} : s[k] \in Digits
        y == digits_value(SubSeq(s, 1, 4), 0)
        m == digits_value(SubSeq(s, 6, 7), 0)
        d == digits_value(SubSeq(s, 9, 10), 0)
    IN  IF shaped /\ m \in 1..12 /\ d \in 1..31
        THEN [ok |-> TRUE, value |-> y * 10000 + m * 100 + d]
        ELSE [ok |-> FALSE, value |-> 0]

\* the serial primary key of the next row
next_id(table) == Len(table) + 1

\* the rows a SELECT returns, in every order the ORDER BY allows
\* (rows with equal keys come in any order)
Orderings(R, key, descending) ==
    LET n == Cardinality(R)
    IN  {s \in [1..n -> R] :
            /\ \A i, j \in 1..n : i < j => s[i] # s[j]
            /\ \A i \in 1..(n - 1) :
                IF descending THEN At(s[i], key) >= At(s[i + 1], key)
                              ELSE At(s[i], key) <= At(s[i + 1], key)}

AnyOrder(R) ==
    LET n == Cardinality(R)
    IN  {s \in [1..n -> R] : \A i, j \in 1..n : i < j => s[i] # s[j]}

TableNamed(table_name) ==
    CASE table_name = "sleep" -> sleep
      [] table_name = "diet" -> diet
      [] table_name = "workout" -> workout

\* position of a column in its table's rows
ColumnIndex(column) ==
    CASE column = "sleep_duration" -> 1
      [] column = "sleep_date" -> 2
      [] column = "diet_date" -> 2
      [] column = "diet_rating" -> 4
      [] column = "workout_date" -> 2
      [] column = "workout_duration" -> 3

DateColumn(table_name) ==
    CASE table_name = "sleep" -> "sleep_date"
      [] table_name = "diet" -> "diet_date"
      [] table_name = "workout" -> "workout_date"

\* WHERE user_detail_id = %s: the user column is the last one
RowsOfUser(table, user_id) == {r \in Range(table) : r[Len(r)] = user_id}

-----------------------------------------------------------------------------
(* Connections.  Every operation opens its own connection.  in_use counts   *)
(* the open connections a running handler holds; abandoned counts those     *)
(* whose operation ended, by return or by exception, without conn.close():  *)
(* they are still open and nothing in the program closes them.              *)

MaxAbandoned == 2

get_db_connection(c) == [c EXCEPT !.in_use = @ + 1]

\* conn.close()
close(c) == [c EXCEPT !.in_use = @ - 1]

\* the operation ends while its connection is open
abandon(c) == [in_use |-> c.in_use - 1, abandoned |-> c.abandoned + 1]

\* an operation that ran to its conn.close(), or whose finally clause closed
closed_after_use(c) == close(get_db_connection(c))

\* an operation that an exception ended before its conn.close()
abandoned_after_use(c) == abandon(get_db_connection(c))

\* the model follows the abandoned connections up to MaxAbandoned of them
CanAbandon == connections.abandoned < MaxAbandoned

-----------------------------------------------------------------------------
(* Read operations.  `failing` is the set of read operations whose query    *)
(* the storage fails in this request (cur.execute raises psycopg2.Error).   *)
(* Each operator is the set of values the call can return; Raised is the    *)
(* outcome of a call that lets the exception out.                           *)

ReadOperations == {"get_data", "get_goal_data", "get_chart_data", "get_feedback_for_user"}

Raised == [raised |-> TRUE, value |-> <<>>]

Returns(value) == [raised |-> FALSE, value |-> value]

get_data(table_name, user_id, failing) ==
    IF "get_data" \in failing
    THEN {Returns(<<>>)}
    ELSE {Returns(rows) :
            rows \in Orderings(RowsOfUser(TableNamed(table_name), user_id),
                               ColumnIndex(DateColumn(table_name)), TRUE)}

get_chart_data(table_name, date_column, value_column, user_id, failing) ==
    IF "get_chart_data" \in failing
    THEN {Returns(<<>>)}
    ELSE {Returns([k \in 1..Len(rows) |->
                    <<At(rows[k], ColumnIndex(date_column)),
                      At(rows[k], ColumnIndex(value_column))>>]) :
            rows \in Orderings(RowsOfUser(TableNamed(table_name), user_id),
                               ColumnIndex(date_column), FALSE)}

get_goal_data(user_id, failing) ==
    IF "get_goal_data" \in failing
    THEN {Returns(<<>>)}
    ELSE {Returns(rows) : rows \in AnyOrder(RowsOfUser(goals, user_id))}

FeedbackLimit == 20

\* no try/except here: a failing query raises out of the function
get_feedback_for_user(user_id, failing) ==
    IF "get_feedback_for_user" \in failing
    THEN {Raised}
    ELSE LET mine == {<<f.feedback_id, f.feedback_type, f.feedback_page, f.feedback_message,
                        IF f.feedback_rating = None THEN 0 ELSE f.feedback_rating.n,
                        f.contact_email, f.created_at>> :
                        f \in {g \in Range(feedback) : g.user_detail_id = user_id}}
         IN  {Returns(SubSeq(rows, 1, IF Len(rows) < FeedbackLimit THEN Len(rows) ELSE FeedbackLimit)) :
                rows \in Orderings(mine, 6, TRUE)}

\* User.get_username: None when the lookup finds no row
get_username(user_id) ==
    IF \E r \in Range(user_detail) : At(r, 0) = user_id
    THEN At(CHOOSE r \in Range(user_detail) : At(r, 0) = user_id, 1)
    ELSE None

\* User.get_username when the storage can fail its query: the except clause
\* returns None (lines 75-77)
User_get_username(user_id, failing) ==
    IF "get_username" \in failing THEN None ELSE get_username(user_id)

\* load_user: the User for a session's user id, None when there is no such row
load_user(user_id) ==
    IF \E r \in Range(user_detail) : At(r, 0) = user_id
    THEN [id |-> user_id, username |-> get_username(user_id)]
    ELSE None

\* a request's session: no user id, or the user id a login stored
Anonymous == 0

\* @login_required: an anonymous request is sent to the login page
LoginRedirect == [status |-> 302, location |-> "/login"]

Redirect(location) == [status |-> 302, location |-> location]

Render(template, context) == [status |-> 200, template |-> template, context |-> context]

\* an exception leaving a view: Flask answers with the 500 handler
InternalError(exception) == [status |-> 500, template |-> "500.html", exception |-> exception]

-----------------------------------------------------------------------------
(* The tip functions on their own: every list of entries, newest first, of  *)
(* up to MaxEntries rows, against no goal row or one goal row.              *)

MaxEntries == 3

DietRatings == {2, 3, 4}
Intensities == {5, 8, 9}
SleepDurations == {6, 7, 8}
SleepRatings == {3, 4, 5}

\* goal rows <<id, sleep_len_goal, better_sleep, intensity, diet, user_detail_id>>
GoalRows(lens, quals, intensities, diets) ==
    {<<1, l, q, i, d, 1>> : l \in lens, q \in quals, i \in intensities, d \in diets}

\* rows as get_data returns them: ids and dates descending
DietRowsOf(vs) ==
    [k \in 1..Len(vs) |-> <<Len(vs) - k + 1, <<>>, Len(vs) - k + 1, <<>>, vs[k], 1>>]

WorkoutRowsOf(vs) ==
    [k \in 1..Len(vs) |->
        <<Len(vs) - k + 1, <<>>, Len(vs) - k + 1, 30, vs[k], <<>>, <<>>, 3, 1>>]

SleepRowsOf(vs) ==
    [k \in 1..Len(vs) |-> <<Len(vs) - k + 1, vs[k][1], Len(vs) - k + 1, <<>>, vs[k][2], 1>>]

\* no goal row, or one; each function against every value of the goal columns it reads
GoalLists(rows) == {<<>>} \cup {<<g>> : g \in rows}

TipCalls ==
    {[fn |-> "diet_tips", data |-> DietRowsOf(vs), goal_data |-> g] :
        vs \in SeqUpTo(DietRatings, MaxEntries),
        g \in GoalLists(GoalRows({7}, {4}, {5}, {3, 4}))}
    \cup
    {[fn |-> "workout_tips", data |-> WorkoutRowsOf(vs), goal_data |-> g] :
        vs \in SeqUpTo(Intensities, MaxEntries),
        g \in GoalLists(GoalRows({7}, {4}, {5, 9}, {3}))}
    \cup
    {[fn |-> "sleep_tips", data |-> SleepRowsOf(vs), goal_data |-> g] :
        vs \in SeqUpTo(SleepDurations \X SleepRatings, MaxEntries),
        g \in GoalLists(GoalRows({7, 8}, {4, 5}, {5}, {3}))}

InitTips ==
    /\ EmptyDatabase
    /\ NoRequests
    /\ args \in TipCalls
    /\ result = NoResult

CallDietTips ==
    /\ args.fn = "diet_tips"
    /\ result = NoResult
    /\ result' = [fn |-> "diet_tips", tips |-> diet_tips(args.data, args.goal_data)]
    /\ UNCHANGED <<tables, pc, local, http, connections, args>>

CallWorkoutTips ==
    /\ args.fn = "workout_tips"
    /\ result = NoResult
    /\ result' = [fn |-> "workout_tips", tips |-> workout_tips(args.data, args.goal_data)]
    /\ UNCHANGED <<tables, pc, local, http, connections, args>>

CallSleepTips ==
    /\ args.fn = "sleep_tips"
    /\ result = NoResult
    /\ result' = [fn |-> "sleep_tips", tips |-> sleep_tips(args.data, args.goal_data)]
    /\ UNCHANGED <<tables, pc, local, http, connections, args>>

NextTips == CallDietTips \/ CallWorkoutTips \/ CallSleepTips

SpecTips == InitTips /\ [][NextTips]_vars

-----------------------------------------------------------------------------
(* Claims about the tip functions, under SpecTips *)

Texts(tips) == [k \in 1..Len(tips) |-> tips[k].text]

Says(tips, text) == \E k \in 1..Len(tips) : tips[k].text = text

Returned == result.fn # "none"

HasData == args.data # <<>> /\ args.goal_data # <<>>

\* the exact comparison of the mean of column i with a goal: total >= goal * count
MeanMeets(i, goal) == column_sum(args.data, i) >= goal * Len(args.data)

\* C1: each tip function returns exactly the one tip "Not enough data yet..."
\* if and only if the entry list is empty or there is no goal row; in every
\* other case the returned list does not contain that tip.
C1_NotEnoughIff ==
    Returned =>
        /\ (result.tips = <<Tip(NotEnoughData, <<>>)>>) <=> ~HasData
        /\ HasData => ~Says(result.tips, NotEnoughData)

C1_Witness ==
    /\ result.fn = "diet_tips"
    /\ Len(args.data) = 1
    /\ args.goal_data # <<>>
    /\ ~Says(result.tips, NotEnoughData)

\* C2: with entries and a goal, for each metric (diet rating, workout
\* intensity, sleep duration, sleep quality) the list has the "meets" average
\* message exactly when the mean is >= the goal value, and the "below"
\* average message exactly when it is not; an equal mean counts as meets.
C2_AverageMeetsIff ==
    (Returned /\ HasData) =>
        LET g == args.goal_data[1]
            t == result.tips
        IN  /\ result.fn = "diet_tips" =>
                /\ Says(t, DietAvgMeets) <=> MeanMeets(4, At(g, 4))
                /\ Says(t, DietAvgBelow) <=> ~MeanMeets(4, At(g, 4))
            /\ result.fn = "workout_tips" =>
                /\ Says(t, WorkAvgMeets) <=> MeanMeets(4, At(g, 3))
                /\ Says(t, WorkAvgBelow) <=> ~MeanMeets(4, At(g, 3))
            /\ result.fn = "sleep_tips" =>
                /\ Says(t, SleepLenAvgMeets) <=> MeanMeets(1, At(g, 1))
                /\ Says(t, SleepLenAvgBelow) <=> ~MeanMeets(1, At(g, 1))
                /\ Says(t, SleepQualAvgMeets) <=> MeanMeets(4, At(g, 2))
                /\ Says(t, SleepQualAvgBelow) <=> ~MeanMeets(4, At(g, 2))

\* the boundary: two diet ratings 2 and 4, mean 3, goal 3
C2_Witness ==
    /\ result.fn = "diet_tips"
    /\ Len(args.data) = 2
    /\ At(args.data[1], 4) = 2
    /\ At(args.data[2], 4) = 4
    /\ args.goal_data # <<>>
    /\ At(args.goal_data[1], 4) = 3
    /\ Says(result.tips, DietAvgMeets)

\* C6: with entries and a goal, sleep_tips returns in this order the
\* average-duration message, the newest-duration message, the average-quality
\* message, the screens suggestion exactly when the average quality is below
\* its goal, and the newest-quality message: 4 strings, or 5 exactly when the
\* average quality is below goal.
C6_SleepOrder ==
    (result.fn = "sleep_tips" /\ HasData) =>
        LET t == Texts(result.tips)
            g == args.goal_data[1]
            qual_below == ~MeanMeets(4, At(g, 2))
            n == Len(t)
        IN  /\ n = (IF qual_below THEN 5 ELSE 4)
            /\ t[1] \in {SleepLenAvgMeets, SleepLenAvgBelow}
            /\ t[2] \in {SleepLenNewestMeets, SleepLenNewestBelow}
            /\ t[3] = (IF qual_below THEN SleepQualAvgBelow ELSE SleepQualAvgMeets)
            /\ qual_below => t[4] = SleepScreens
            /\ t[n] \in {SleepQualNewestMeets, SleepQualNewestBelow}
            /\ Says(result.tips, SleepScreens) <=> qual_below

\* the scenario of the specification: (6, 3) newest, then (7, 4); goal (7, 4)
C6_Witness ==
    /\ result.fn = "sleep_tips"
    /\ Len(args.data) = 2
    /\ <<At(args.data[1], 1), At(args.data[1], 4)>> = <<6, 3>>
    /\ <<At(args.data[2], 1), At(args.data[2], 4)>> = <<7, 4>>
    /\ args.goal_data # <<>>
    /\ <<At(args.goal_data[1], 1), At(args.goal_data[1], 2)>> = <<7, 4>>
    /\ Texts(result.tips) = <<SleepLenAvgBelow, SleepLenNewestBelow, SleepQualAvgBelow,
                              SleepScreens, SleepQualNewestBelow>>
    /\ result.tips[1].values = <<650>>
    /\ result.tips[3].values = <<350>>

\* C7 as claimed: with entries and a goal, workout_tips has the overtraining
\* caution exactly when the newest intensity is >= 8, whatever the goal.
C7_CautionIffHigh ==
    (result.fn = "workout_tips" /\ HasData) =>
        (Says(result.tips, WorkTooIntense) <=> At(args.data[1], 4) >= 8)

\* C7 as the code has it: with entries and a goal, workout_tips has the
\* overtraining caution exactly when the newest intensity is >= 8 and also
\* meets the intensity goal; a newest intensity below the goal never gets it.
C7_CautionIffHighAndMeets ==
    (result.fn = "workout_tips" /\ HasData) =>
        LET newest == At(args.data[1], 4)
            goal == At(args.goal_data[1], 3)
        IN  /\ Says(result.tips, WorkTooIntense) <=> (newest >= 8 /\ newest >= goal)
            /\ newest < goal => Says(result.tips, WorkNewestCoach)

C7_Witness ==
    /\ result.fn = "workout_tips"
    /\ HasData
    /\ At(args.data[1], 4) = 8
    /\ At(args.goal_data[1], 3) = 9
    /\ ~Says(result.tips, WorkTooIntense)

-----------------------------------------------------------------------------
(* Requests.  A handler that runs statements on its own connection between  *)
(* which other workers can act is one action per statement; the others are  *)
(* one action.  An exchange records the request a worker completed and the  *)
(* response it sent.                                                        *)

NoForm == [empty |-> TRUE]

\* failing: the read operations the storage failed while the request was handled
FaultyExchange(w, handler, method, session, form, failing, resp) ==
    [worker |-> w, handler |-> handler, method |-> method, session |-> session,
     form |-> form, failing |-> failing, resp |-> resp]

Exchange(w, handler, method, session, form, resp) ==
    FaultyExchange(w, handler, method, session, form, {}, resp)

Sessions == {Anonymous} \cup {At(r, 0) : r \in Range(user_detail)}

\* generate_password_hash(password, method='pbkdf2:sha256'): the salt is drawn
\* at random; the digest stands for the one-way image of salt and password
generate_password_hash(password, salt) ==
    [method |-> "pbkdf2:sha256", salt |-> salt, digest_of |-> password]

Ann == Str(<<"a", "n", "n">>)
Bob == Str(<<"b", "o", "b">>)

Usernames == {Ann, Bob}
Passwords == {Str(<<"p", "w", "1">>), Str(<<"p", "w", "2">>)}
Salts == {"salt1"}

\* two accounts, as two completed registrations leave them
RegisteredUsers ==
    <<<<1, Ann, generate_password_hash(Str(<<"p", "w", "1">>), "salt1")>>,
      <<2, Bob, generate_password_hash(Str(<<"p", "w", "2">>), "salt1")>>>>

-----------------------------------------------------------------------------
(* /register *)

MaxUsers == 3

RegisterInFlight == Cardinality({w \in Workers : pc[w] \in {"register_insert", "register_commit"}})

\* SELECT 1 FROM habits.user_detail WHERE user_detail_username = %s; fetchone()
existing_user_never(username) == FALSE

existing_user(username) == \E r \in Range(user_detail) : At(r, 1) = username

RegisterGet(w) ==
    /\ pc[w] = "idle"
    /\ http' = Exchange(w, "register", "GET", Anonymous, NoForm,
                        Render("signup.html", [error |-> None]))
    /\ UNCHANGED <<tables, pc, local, connections, args, result>>

\* lines 381-393: the form, the hash, the connection, the existence check
RegisterPost(w) ==
    /\ pc[w] = "idle"
    /\ \E username \in Usernames, password \in Passwords, salt \in Salts :
        LET password_hash == generate_password_hash(password, salt)
            form == [username |-> username, password |-> password]
        IN  IF existing_user(username)
            THEN /\ http' = Exchange(w, "register", "POST", Anonymous, form,
                                     Render("signup.html", [error |-> "Username taken!"]))
                 /\ connections' = closed_after_use(connections)
                 /\ UNCHANGED <<tables, pc, local, args, result>>
            ELSE /\ Len(user_detail) + RegisterInFlight < MaxUsers
                 /\ pc' = [pc EXCEPT ![w] = "register_insert"]
                 /\ local' = [local EXCEPT ![w] =
                                [handler |-> "register", form |-> form,
                                 password_hash |-> password_hash]]
                 /\ connections' = get_db_connection(connections)
                 /\ UNCHANGED <<tables, http, args, result>>

\* lines 395-398: the INSERT, pending in this worker's transaction
RegisterInsert(w) ==
    /\ pc[w] = "register_insert"
    /\ pc' = [pc EXCEPT ![w] = "register_commit"]
    /\ UNCHANGED <<tables, local, http, connections, args, result>>

\* lines 399-401: the commit makes the row visible; then the redirect
RegisterCommit(w) ==
    /\ pc[w] = "register_commit"
    /\ user_detail' = Append(user_detail,
                             <<next_id(user_detail), local[w].form.username,
                               local[w].password_hash>>)
    /\ pc' = [pc EXCEPT ![w] = "idle"]
    /\ local' = [local EXCEPT ![w] = NoLocal]
    /\ http' = Exchange(w, "register", "POST", Anonymous, local[w].form, Redirect("/login"))
    /\ connections' = close(connections)
    /\ UNCHANGED <<goals, sleep, diet, workout, feedback, args, result>>

InitWeb ==
    /\ NoRequests
    /\ args = NoCall
    /\ result = NoResult

InitRegister ==
    /\ EmptyDatabase
    /\ InitWeb

NextRegister ==
    \E w \in Workers :
        RegisterGet(w) \/ RegisterPost(w) \/ RegisterInsert(w) \/ RegisterCommit(w)

SpecRegister == InitRegister /\ [][NextRegister]_vars

-----------------------------------------------------------------------------
(* Claims about /register, under SpecRegister *)

Stored(username) == \E k \in 1..Len(user_detail) : At(user_detail[k], 1) = username

\* worker w takes a POST /register from its form to the end of the existence check
RegisterChecked(w) ==
    /\ pc[w] = "idle"
    /\ \/ pc'[w] = "register_insert"
       \/ /\ http' # http
          /\ http'.worker = w /\ http'.handler = "register" /\ http'.method = "POST"

RegisterCheckedForm(w) == IF pc'[w] = "register_insert" THEN local'[w].form ELSE http'.form

\* C5: a register request whose username is stored when the request checks
\* for it gets the signup page with 'Username taken!' and leaves the user
\* table as it was; one whose username is not stored goes on to insert, and
\* its commit adds exactly one row, with that username and hash, after the
\* existing rows; no step changes or removes an existing row.
C5_DuplicateRejected ==
    [][/\ \A w \in Workers :
            /\ (RegisterChecked(w) /\ Stored(RegisterCheckedForm(w).username)) =>
                    /\ pc'[w] = "idle"
                    /\ http'.resp = Render("signup.html", [error |-> "Username taken!"])
                    /\ user_detail' = user_detail
            /\ (RegisterChecked(w) /\ ~Stored(RegisterCheckedForm(w).username)) =>
                    /\ pc'[w] = "register_insert"
                    /\ user_detail' = user_detail
            /\ (pc[w] = "register_commit" /\ pc'[w] = "idle") =>
                    /\ Len(user_detail') = Len(user_detail) + 1
                    /\ At(user_detail'[Len(user_detail')], 1) = local[w].form.username
                    /\ At(user_detail'[Len(user_detail')], 2) = local[w].password_hash
                    /\ http'.resp = Redirect("/login")
       /\ Len(user_detail') >= Len(user_detail)
       /\ \A k \in 1..Len(user_detail) : user_detail'[k] = user_detail[k]
       /\ user_detail' # user_detail =>
            \E w \in Workers : pc[w] = "register_commit" /\ pc'[w] = "idle"
      ]_vars

\* a rejected request for a stored username whose password differs from the stored one
C5_Witness ==
    /\ http.handler = "register"
    /\ http.method = "POST"
    /\ http.resp = Render("signup.html", [error |-> "Username taken!"])
    /\ Len(user_detail) = 1
    /\ At(user_detail[1], 1) = http.form.username
    /\ At(user_detail[1], 2).digest_of # http.form.password

\* C10: no two rows of the user table have the same username.
C10_UniqueUsernames ==
    \A i, j \in 1..Len(user_detail) :
        i # j => At(user_detail[i], 1) # At(user_detail[j], 1)

-----------------------------------------------------------------------------
(* /goals *)

Seven == Str(<<"7">>)
Eight == Str(<<"8">>)
Four == Str(<<"4">>)
Five == Str(<<"5">>)
Three == Str(<<"3">>)
Nine == Str(<<"9">>)
Abc == Str(<<"a", "b", "c">>)

GoalForms ==
    {[duration |-> Seven, quality |-> Four, intense |-> Five, diet |-> Three],
     [duration |-> Eight, quality |-> Five, intense |-> Nine, diet |-> Four],
     [duration |-> Eight, quality |-> None, intense |-> Five, diet |-> Abc]}

\* the four values of the statement as the goals columns take them
goal_values(form) ==
    LET moresleep == pg_numeric(form.duration)
        bettersleep == pg_numeric(form.quality)
        intensity == pg_numeric(form.intense)
        diet_goal == pg_numeric(form.diet)
    IN  [ok |-> moresleep.ok /\ bettersleep.ok /\ intensity.ok /\ diet_goal.ok,
         row |-> <<moresleep.value, bettersleep.value, intensity.value, diet_goal.value>>]

\* a plain INSERT, without the ON CONFLICT clause
upsert_goal_insert_only(table, values, user_id) ==
    Append(table, <<next_id(table)>> \o values \o <<user_id>>)

\* INSERT ... ON CONFLICT (user_detail_id) DO UPDATE SET the four columns
upsert_goal(table, values, user_id) ==
    IF \E k \in 1..Len(table) : At(table[k], 5) = user_id
    THEN [k \in 1..Len(table) |->
            IF At(table[k], 5) = user_id
            THEN <<At(table[k], 0)>> \o values \o <<user_id>>
            ELSE table[k]]
    ELSE Append(table, <<next_id(table)>> \o values \o <<user_id>>)

\* the row of user_id is locked by another worker's uncommitted upsert
GoalRowLocked(w, user_id) ==
    \E other \in Workers \ {w} :
        pc[other] = "goals_commit" /\ local[other].user_id = user_id

GoalsGet(w) ==
    /\ pc[w] = "idle"
    /\ \E session \in Sessions :
        LET current_user == load_user(session)
        IN  http' = Exchange(w, "goals", "GET", session, NoForm,
                             IF current_user = None THEN LoginRedirect
                             ELSE Render("goals.html", [user |-> current_user.username]))
    /\ UNCHANGED <<tables, pc, local, connections, args, result>>

\* lines 561-581: the form and the upsert statement, which waits while another
\* transaction holds the row of this user
GoalsPost(w) ==
    /\ pc[w] = "idle"
    /\ \E session \in Sessions, form \in GoalForms :
        LET current_user == load_user(session)
            values == goal_values(form)
        IN  IF current_user = None
            THEN /\ http' = Exchange(w, "goals", "POST", session, form, LoginRedirect)
                 /\ UNCHANGED <<tables, pc, local, connections, args, result>>
            ELSE IF ~values.ok
            THEN /\ CanAbandon
                 /\ http' = Exchange(w, "goals", "POST", session, form,
                                     InternalError("psycopg2.Error"))
                 /\ connections' = abandoned_after_use(connections)
                 /\ UNCHANGED <<tables, pc, local, args, result>>
            ELSE /\ ~GoalRowLocked(w, current_user.id)
                 /\ pc' = [pc EXCEPT ![w] = "goals_commit"]
                 /\ local' = [local EXCEPT ![w] =
                                [handler |-> "goals", session |-> session, form |-> form,
                                 user_id |-> current_user.id, values |-> values.row]]
                 /\ connections' = get_db_connection(connections)
                 /\ UNCHANGED <<tables, http, args, result>>

\* lines 582-585: the commit, then the page
GoalsCommit(w) ==
    /\ pc[w] = "goals_commit"
    /\ goals' = upsert_goal(goals, local[w].values, local[w].user_id)
    /\ pc' = [pc EXCEPT ![w] = "idle"]
    /\ local' = [local EXCEPT ![w] = NoLocal]
    /\ http' = Exchange(w, "goals", "POST", local[w].session, local[w].form,
                        Render("goals.html", [user |-> get_username(local[w].user_id)]))
    /\ connections' = close(connections)
    /\ UNCHANGED <<user_detail, sleep, diet, workout, feedback, args, result>>

InitGoals ==
    /\ user_detail = RegisteredUsers
    /\ goals = <<>>
    /\ sleep = <<>>
    /\ diet = <<>>
    /\ workout = <<>>
    /\ feedback = <<>>
    /\ InitWeb

NextGoals == \E w \in Workers : GoalsGet(w) \/ GoalsPost(w) \/ GoalsCommit(w)

SpecGoals == InitGoals /\ [][NextGoals]_vars

-----------------------------------------------------------------------------
(* Claims about /goals, under SpecGoals *)

GoalRowsOf(table, user_id) == {k \in 1..Len(table) : At(table[k], 5) = user_id}

\* C3: the goals table never holds more than one row per user; when a goal
\* submission commits, the one row of its user holds the four values of that
\* submission and the rows of the other users are as they were; the table
\* changes by nothing else.
C3_OneGoalRowLastWrite ==
    /\ [](\A u \in 1..Len(user_detail) : Cardinality(GoalRowsOf(goals, u)) <= 1)
    /\ [][/\ \A w \in Workers :
                (pc[w] = "goals_commit" /\ pc'[w] = "idle") =>
                    LET u == local[w].user_id
                        form == local[w].form
                    IN  /\ Cardinality(GoalRowsOf(goals', u)) = 1
                        /\ \A k \in GoalRowsOf(goals', u) :
                            /\ At(goals'[k], 1) = parse_integer(form.duration.chars).value
                            /\ At(goals'[k], 2) = parse_integer(form.quality.chars).value
                            /\ At(goals'[k], 3) = parse_integer(form.intense.chars).value
                            /\ At(goals'[k], 4) = parse_integer(form.diet.chars).value
                        /\ \A v \in (1..Len(user_detail)) \ {u} :
                            {goals'[k] : k \in GoalRowsOf(goals', v)}
                                = {goals[k] : k \in GoalRowsOf(goals, v)}
          /\ goals' # goals =>
                \E w \in Workers : pc[w] = "goals_commit" /\ pc'[w] = "idle"
         ]_vars

\* user 1 submitted again after user 2's row existed: user 1's row, created
\* first, now holds the values of the submission just committed
C3_Witness ==
    /\ Len(goals) = 2
    /\ At(goals[1], 5) = 1
    /\ At(goals[2], 5) = 2
    /\ http.handler = "goals"
    /\ http.method = "POST"
    /\ http.session = 1
    /\ http.resp.status = 200
    /\ <<At(goals[1], 1), At(goals[1], 2), At(goals[1], 3), At(goals[1], 4)>> = <<8, 5, 9, 4>>
    /\ http.form.duration = Eight
    /\ \E w \in Workers \ {http.worker} : pc[w] = "goals_commit" /\ local[w].user_id = 1

-----------------------------------------------------------------------------
(* /feedback *)

MaxFeedback == 2

RatingInputs ==
    {None, Str(<<>>), Str(<<"6">>), Str(<<"0">>), Abc, Str(<<"1">>), Five}

\* every rating input without an email, and one submission with an email
FeedbackForms ==
    {[type |-> Str(<<" ", "B", "u", "g">>), page |-> Str(<<"H", "o", "m", "e">>),
      message |-> Str(<<"h", "i", " ">>), rating |-> r, email |-> Str(<<>>)] :
        r \in RatingInputs}
    \cup
    {[type |-> None, page |-> Str(<<"H", "o", "m", "e">>),
      message |-> Str(<<"h", "i", " ">>), rating |-> Str(<<"6">>),
      email |-> Str(<<"a", "@", "b">>)]}

\* lines 606-611 without the range test
coerce_rating_any_integer(rating) ==
    IF truthy(rating)
    THEN IF int(rating).ok THEN PyInt(int(rating).value) ELSE None
    ELSE None

\* lines 606-611: the safe rating coercion
coerce_rating(rating) ==
    IF truthy(rating)
    THEN IF int(rating).ok
         THEN IF 1 <= int(rating).value /\ int(rating).value <= 5
              THEN PyInt(int(rating).value)
              ELSE None
         ELSE None
    ELSE None

FeedbackPost(w) ==
    /\ pc[w] = "idle"
    /\ Len(feedback) < MaxFeedback
    /\ \E session \in Sessions, form \in FeedbackForms :
        LET current_user == load_user(session)
            ftype == lower(strip(or_empty(form.type)))
            fpage == lower(strip(or_empty(form.page)))
            msg == strip(or_empty(form.message))
            rating == form.rating
            email == strip(or_empty(form.email))
            r_val == coerce_rating(rating)
        IN  IF current_user = None
            THEN /\ http' = Exchange(w, "feedback", "POST", session, form, LoginRedirect)
                 /\ UNCHANGED feedback
            ELSE /\ feedback' = Append(feedback,
                        [feedback_id |-> next_id(feedback),
                         user_detail_id |-> current_user.id,
                         feedback_type |-> ftype,
                         feedback_page |-> fpage,
                         feedback_message |-> msg,
                         feedback_rating |-> r_val,
                         contact_email |-> IF truthy(email) THEN email ELSE None,
                         created_at |-> Len(feedback) + 1])
                 /\ http' = Exchange(w, "feedback", "POST", session, form,
                                     Redirect("/feedback"))
    /\ UNCHANGED <<user_detail, goals, sleep, diet, workout, pc, local, connections, args, result>>

FeedbackGet(w) ==
    /\ pc[w] = "idle"
    /\ \E session \in Sessions :
        LET current_user == load_user(session)
        IN  IF current_user = None
            THEN /\ http' = Exchange(w, "feedback", "GET", session, NoForm, LoginRedirect)
                 /\ UNCHANGED connections
            ELSE \E failing \in SUBSET {"get_feedback_for_user"} :
                 \E fb_rows \in get_feedback_for_user(current_user.id, failing) :
                    /\ http' = FaultyExchange(w, "feedback", "GET", session, NoForm, failing,
                                IF fb_rows.raised
                                THEN InternalError("psycopg2.Error")
                                ELSE Render("feedback.html",
                                            [user |-> current_user.username,
                                             feedback_data |-> fb_rows.value]))
                    \* lines 111-133: the exception leaves before cur.close(), conn.close()
                    /\ IF fb_rows.raised
                       THEN /\ CanAbandon
                            /\ connections' = abandoned_after_use(connections)
                       ELSE connections' = closed_after_use(connections)
    /\ UNCHANGED <<tables, pc, local, args, result>>

InitFeedback ==
    /\ user_detail = RegisteredUsers
    /\ goals = <<>>
    /\ sleep = <<>>
    /\ diet = <<>>
    /\ workout = <<>>
    /\ feedback = <<>>
    /\ InitWeb

NextFeedback == \E w \in Workers : FeedbackGet(w) \/ FeedbackPost(w)

SpecFeedback == InitFeedback /\ [][NextFeedback]_vars

-----------------------------------------------------------------------------
(* Claims about /feedback, under SpecFeedback *)

\* what the claim has each rating input stored as
RatingAsClaimed(rating) ==
    CASE rating = Str(<<"1">>) -> PyInt(1)
      [] rating = Five -> PyInt(5)
      [] OTHER -> None

\* C4: every feedback submission of a logged-in user, whatever its rating
\* field, inserts exactly one row after the existing ones and is answered
\* with the redirect to /feedback; the row's rating is the integer the field
\* spells when that is in 1..5 and absent in every other case; so every
\* stored rating is absent or in 1..5.
C4_RatingCoerced ==
    /\ [](\A k \in 1..Len(feedback) :
            \/ feedback[k].feedback_rating = None
            \/ feedback[k].feedback_rating \in {PyInt(n) : n \in 1..5})
    /\ [][(/\ http'.handler = "feedback"
           /\ http'.method = "POST"
           /\ http'.session # Anonymous) =>
            /\ http'.resp = Redirect("/feedback")
            /\ Len(feedback') = Len(feedback) + 1
            /\ SubSeq(feedback', 1, Len(feedback)) = feedback
            /\ feedback'[Len(feedback')].feedback_rating = RatingAsClaimed(http'.form.rating)
            /\ feedback'[Len(feedback')].user_detail_id = http'.session
         ]_vars

\* rating "6" was stored as absent and the submission was accepted
C4_Witness ==
    /\ http.handler = "feedback"
    /\ http.method = "POST"
    /\ http.form.rating = Str(<<"6">>)
    /\ http.resp = Redirect("/feedback")
    /\ Len(feedback) = 2
    /\ feedback[1].feedback_rating = PyInt(5)
    /\ feedback[2].feedback_rating = None
    /\ feedback[2].feedback_type = Str(<<"b", "u", "g">>)

-----------------------------------------------------------------------------
(* /sleep, /diet, /workout *)

MaxLogRows == 2

LogRows == Len(sleep) + Len(diet) + Len(workout)

Day1 == Str(<<"2", "0", "2", "4", "-", "0", "1", "-", "0", "1">>)
Day2 == Str(<<"2", "0", "2", "4", "-", "0", "1", "-", "0", "2">>)
Six == Str(<<"6">>)
Thirty == Str(<<"3", "0">>)
NoText == Str(<<>>)

SleepForms ==
    {[date |-> d, duration |-> n, rating |-> Three, notes |-> NoText] :
        d \in {None, Day1, Day2}, n \in {Six, Abc}}

DietForms ==
    {[date |-> Day1, rating |-> r, mealname |-> Str(<<"o", "a", "t", "s">>), notes |-> NoText] :
        r \in {Four, NoText}}

WorkoutForms ==
    {[date |-> Day1, name |-> Str(<<"r", "u", "n">>), duration |-> Thirty, intensity |-> i,
      type |-> Str(<<"c", "a", "r", "d", "i", "o">>), rating |-> Three, notes |-> NoText] :
        i \in {Nine, None}}

\* the operations that read for a log page; the storage fails at most one of
\* them per request
PageFailures ==
    {{}} \cup {{op} : op \in {"get_data", "get_goal_data", "get_chart_data", "get_username"}}

\* the connections after the reads of a page: get_data, get_goal_data and
\* get_chart_data close in their finally clauses; get_username's except clause
\* (lines 75-77) returns with the connection open
PageConnections(failing) ==
    /\ "get_username" \in failing => CanAbandon
    /\ connections' = IF "get_username" \in failing
                      THEN abandoned_after_use(connections)
                      ELSE closed_after_use(connections)

\* lines 436-443: ok is FALSE where cur.execute raises
sleep_insert(form, user_id) ==
    LET duration == pg_numeric(form.duration)
        date == pg_date(form.date)
        rating == pg_numeric(form.rating)
    IN  [ok |-> duration.ok /\ date.ok /\ rating.ok,
         table |-> Append(sleep, <<next_id(sleep), duration.value, date.value, form.notes,
                                   rating.value, user_id>>)]

\* lines 479-486
diet_insert(form, user_id) ==
    LET date == pg_date(form.date)
        rating == pg_numeric(form.rating)
    IN  [ok |-> date.ok /\ rating.ok,
         table |-> Append(diet, <<next_id(diet), form.mealname, date.value, form.notes,
                                  rating.value, user_id>>)]

\* lines 525-533
workout_insert(form, user_id) ==
    LET date == pg_date(form.date)
        duration == pg_numeric(form.duration)
        intensity == pg_numeric(form.intensity)
        rating == pg_numeric(form.rating)
    IN  [ok |-> date.ok /\ duration.ok /\ intensity.ok /\ rating.ok,
         table |-> Append(workout, <<next_id(workout), form.name, date.value, duration.value,
                                     intensity.value, form.type, form.notes, rating.value,
                                     user_id>>)]

\* lines 448-458, on the table as the request leaves it
SleepPage(w, method, session, form, failing) ==
    \E sleep_data \in get_data("sleep", session, failing)',
       goal_data \in get_goal_data(session, failing),
       sleep_chart_data \in get_chart_data("sleep", "sleep_date", "sleep_duration",
                                           session, failing)' :
        /\ PageConnections(failing)
        /\ http' = FaultyExchange(w, "sleep", method, session, form, failing,
                    Render("sleep.html",
                           [sleep_data |-> sleep_data.value,
                            sleep_chart_data |-> sleep_chart_data.value,
                            tips |-> sleep_tips(sleep_data.value, goal_data.value),
                            user |-> User_get_username(session, failing)]))

\* lines 491-501
DietPage(w, method, session, form, failing) ==
    \E diet_data \in get_data("diet", session, failing)',
       goal_data \in get_goal_data(session, failing),
       diet_chart_data \in get_chart_data("diet", "diet_date", "diet_rating",
                                          session, failing)' :
        /\ PageConnections(failing)
        /\ http' = FaultyExchange(w, "diet", method, session, form, failing,
                    Render("diet.html",
                           [diet_data |-> diet_data.value,
                            diet_chart_data |-> diet_chart_data.value,
                            tips |-> diet_tips(diet_data.value, goal_data.value),
                            user |-> User_get_username(session, failing)]))

\* lines 538-548
WorkoutPage(w, method, session, form, failing) ==
    \E workout_data \in get_data("workout", session, failing)',
       goal_data \in get_goal_data(session, failing),
       workout_chart_data \in get_chart_data("workout", "workout_date", "workout_duration",
                                             session, failing)' :
        /\ PageConnections(failing)
        /\ http' = FaultyExchange(w, "workout", method, session, form, failing,
                    Render("workout.html",
                           [workout_data |-> workout_data.value,
                            workout_chart_data |-> workout_chart_data.value,
                            tips |-> workout_tips(workout_data.value, goal_data.value),
                            user |-> User_get_username(session, failing)]))

SleepGet(w) ==
    /\ pc[w] = "idle"
    /\ UNCHANGED <<tables, pc, local, args, result>>
    /\ \E session \in Sessions :
        IF load_user(session) = None
        THEN /\ http' = Exchange(w, "sleep", "GET", session, NoForm, LoginRedirect)
             /\ UNCHANGED connections
        ELSE \E failing \in PageFailures : SleepPage(w, "GET", session, NoForm, failing)

SleepPost(w) ==
    /\ pc[w] = "idle"
    /\ LogRows < MaxLogRows
    /\ UNCHANGED <<user_detail, goals, diet, workout, feedback, pc, local, args, result>>
    /\ \E session \in Sessions, form \in SleepForms :
        LET current_user == load_user(session)
            inserted == sleep_insert(form, current_user.id)
        IN  IF current_user = None
            THEN /\ sleep' = sleep
                 /\ http' = Exchange(w, "sleep", "POST", session, form, LoginRedirect)
                 /\ UNCHANGED connections
            ELSE IF ~inserted.ok
            THEN /\ CanAbandon
                 /\ sleep' = sleep
                 /\ http' = Exchange(w, "sleep", "POST", session, form,
                                     InternalError("psycopg2.Error"))
                 /\ connections' = abandoned_after_use(connections)
            ELSE /\ sleep' = inserted.table
                 /\ \E failing \in PageFailures : SleepPage(w, "POST", session, form, failing)

DietGet(w) ==
    /\ pc[w] = "idle"
    /\ UNCHANGED <<tables, pc, local, args, result>>
    /\ \E session \in Sessions :
        IF load_user(session) = None
        THEN /\ http' = Exchange(w, "diet", "GET", session, NoForm, LoginRedirect)
             /\ UNCHANGED connections
        ELSE \E failing \in PageFailures : DietPage(w, "GET", session, NoForm, failing)

DietPost(w) ==
    /\ pc[w] = "idle"
    /\ LogRows < MaxLogRows
    /\ UNCHANGED <<user_detail, goals, sleep, workout, feedback, pc, local, args, result>>
    /\ \E session \in Sessions, form \in DietForms :
        LET current_user == load_user(session)
            inserted == diet_insert(form, current_user.id)
        IN  IF current_user = None
            THEN /\ diet' = diet
                 /\ http' = Exchange(w, "diet", "POST", session, form, LoginRedirect)
                 /\ UNCHANGED connections
            ELSE IF ~inserted.ok
            THEN /\ CanAbandon
                 /\ diet' = diet
                 /\ http' = Exchange(w, "diet", "POST", session, form,
                                     InternalError("psycopg2.Error"))
                 /\ connections' = abandoned_after_use(connections)
            ELSE /\ diet' = inserted.table
                 /\ \E failing \in PageFailures : DietPage(w, "POST", session, form, failing)

WorkoutGet(w) ==
    /\ pc[w] = "idle"
    /\ UNCHANGED <<tables, pc, local, args, result>>
    /\ \E session \in Sessions :
        IF load_user(session) = None
        THEN /\ http' = Exchange(w, "workout", "GET", session, NoForm, LoginRedirect)
             /\ UNCHANGED connections
        ELSE \E failing \in PageFailures : WorkoutPage(w, "GET", session, NoForm, failing)

WorkoutPost(w) ==
    /\ pc[w] = "idle"
    /\ LogRows < MaxLogRows
    /\ UNCHANGED <<user_detail, goals, sleep, diet, feedback, pc, local, args, result>>
    /\ \E session \in Sessions, form \in WorkoutForms :
        LET current_user == load_user(session)
            inserted == workout_insert(form, current_user.id)
        IN  IF current_user = None
            THEN /\ workout' = workout
                 /\ http' = Exchange(w, "workout", "POST", session, form, LoginRedirect)
                 /\ UNCHANGED connections
            ELSE IF ~inserted.ok
            THEN /\ CanAbandon
                 /\ workout' = workout
                 /\ http' = Exchange(w, "workout", "POST", session, form,
                                     InternalError("psycopg2.Error"))
                 /\ connections' = abandoned_after_use(connections)
            ELSE /\ workout' = inserted.table
                 /\ \E failing \in PageFailures :
                        WorkoutPage(w, "POST", session, form, failing)

\* user 1 has set goals and sent one feedback; user 2 has done neither
InitPages ==
    /\ user_detail = RegisteredUsers
    /\ goals = upsert_goal(<<>>, <<7, 4, 5, 3>>, 1)
    /\ sleep = <<>>
    /\ diet = <<>>
    /\ workout = <<>>
    /\ feedback = <<[feedback_id |-> 1, user_detail_id |-> 1,
                     feedback_type |-> Str(<<"b", "u", "g">>),
                     feedback_page |-> Str(<<"h", "o", "m", "e">>),
                     feedback_message |-> Str(<<"h", "i">>),
                     feedback_rating |-> PyInt(5), contact_email |-> None,
                     created_at |-> 1]>>
    /\ InitWeb

NextPages ==
    \E w \in Workers :
        \/ SleepGet(w) \/ SleepPost(w)
        \/ DietGet(w) \/ DietPost(w)
        \/ WorkoutGet(w) \/ WorkoutPost(w)
        \/ FeedbackGet(w)

SpecPages == InitPages /\ [][NextPages]_vars

-----------------------------------------------------------------------------
(* Claims about the log pages and the read operations, under SpecPages *)

LogHandlers == {"sleep", "diet", "workout"}

PageOf(handler) ==
    CASE handler = "sleep" -> "sleep.html"
      [] handler = "diet" -> "diet.html"
      [] handler = "workout" -> "workout.html"
      [] handler = "feedback" -> "feedback.html"

\* a required date or numeric field of the form is missing or not a date / number
InvalidLogForm(handler, form) ==
    CASE handler = "sleep" ->
            ~pg_date(form.date).ok \/ ~pg_numeric(form.duration).ok \/ ~pg_numeric(form.rating).ok
      [] handler = "diet" ->
            ~pg_date(form.date).ok \/ ~pg_numeric(form.rating).ok
      [] handler = "workout" ->
            \/ ~pg_date(form.date).ok \/ ~pg_numeric(form.duration).ok
            \/ ~pg_numeric(form.intensity).ok \/ ~pg_numeric(form.rating).ok

\* C8: a log submission of a logged-in user whose required date or numeric
\* fields are missing or non-numeric is answered with the form page again,
\* carrying a validation error; no row is appended to the log tables and no
\* storage exception reaches the presentation layer (no 500 response).
C8_InvalidLogIsValidationError ==
    [][(/\ http'.handler \in LogHandlers
        /\ http'.method = "POST"
        /\ http'.session # Anonymous
        /\ InvalidLogForm(http'.handler, http'.form)) =>
            /\ <<sleep', diet', workout'>> = <<sleep, diet, workout>>
            /\ http'.resp.status = 200
            /\ http'.resp.template = PageOf(http'.handler)
            /\ "error" \in DOMAIN http'.resp.context
      ]_vars

\* the collection a failed read operation handed to the page
ReadResult(exchange, op) ==
    LET context == exchange.resp.context
    IN  CASE op = "get_feedback_for_user" -> context.feedback_data
          [] op = "get_data" /\ exchange.handler = "sleep" -> context.sleep_data
          [] op = "get_data" /\ exchange.handler = "diet" -> context.diet_data
          [] op = "get_data" /\ exchange.handler = "workout" -> context.workout_data
          [] op = "get_chart_data" /\ exchange.handler = "sleep" -> context.sleep_chart_data
          [] op = "get_chart_data" /\ exchange.handler = "diet" -> context.diet_chart_data
          [] op = "get_chart_data" /\ exchange.handler = "workout" -> context.workout_chart_data
          [] OTHER -> <<>>

\* C9: whenever the storage fails a read operation (get_data, get_chart_data,
\* get_goal_data, _get_feedback_for_user) of a request, the operation returns
\* an empty collection instead of raising: the page is still rendered, with
\* an empty collection from that operation and, when entries or goal could
\* not be read, with the single tip "Not enough data yet..."; a GET leaves
\* the stored data as it was.
C9_ReadFailureGivesEmpty ==
    [][(http'.failing # {}) =>
            /\ http'.method = "GET" => tables' = tables
            /\ http'.resp.status = 200
            /\ http'.resp.template = PageOf(http'.handler)
            /\ \A op \in http'.failing : ReadResult(http', op) = <<>>
            /\ (http'.failing \cap {"get_data", "get_goal_data"} # {}) =>
                    http'.resp.context.tips = <<Tip(NotEnoughData, <<>>)>>
      ]_vars

-----------------------------------------------------------------------------
(* Claims about the connections, under SpecPages *)

OpenConnections == connections.in_use + connections.abandoned

NoRequestInFlight == \A w \in Workers : pc[w] = "idle"

\* C11: every storage connection an operation opened is closed by the time
\* the operation ends, whether it succeeded, its query or insert failed or
\* its lookup found no row: whenever every request so far has completed,
\* the number of open connections is zero.
C11_NoOpenConnections == NoRequestInFlight => OpenConnections = 0

-----------------------------------------------------------------------------
(* The whole application: every handler on an empty database.  The          *)
(* specifications above are its parts, each started in a state this one    *)
(* reaches and restricted to the handlers of one area.                     *)

Init ==
    /\ EmptyDatabase
    /\ InitWeb

Next == NextRegister \/ NextGoals \/ NextFeedback \/ NextPages

Spec == Init /\ [][Next]_vars

=============================================================================
